---- MODULE Spec2Model ----
(***************************************************************************)
(* EncryptoVault: the access-controlled encrypted-document ledger.         *)
(*                                                                         *)
(* The ledger is the Solidity contract EncryptoVault.  Every external      *)
(* function runs as one transaction: it either commits all its writes and  *)
(* events or reverts and commits none, so each function is one action.     *)
(* The confidential-value store is the FHE access-control list the         *)
(* contract talks to through FHE.fromExternal / FHE.allow / FHE.allowThis  *)
(* / FHE.isSenderAllowed.  A call of createDocument is taken together with *)
(* the client-side encryption of the secret that precedes it (the test     *)
(* helper createDocument, the front end's handleCreateDocument), which     *)
(* produces a new handle for every call: a handle or an input proof that   *)
(* is presented a second time is outside this model.                       *)
(***************************************************************************)
EXTENDS Integers, Sequences, FiniteSets, TLC

\* ------------------------------------------------------------------ bounds
\* The ledger accepts at most MaxDocs creations in a run.
MaxDocs == 2
\* block.timestamp advances at most MaxTicks times in a run (SpecClock).
MaxTicks == 1

\* The bodies the codec encrypts have at most MaxBodyLen characters.
MaxBodyLen == 2
\* The payloads handed to decryptBody as they are have at most MaxPayloadLen
\* characters.
MaxPayloadLen == 4
\* The user calls at most MaxCalls handlers that send a request in a run.
MaxCalls == 2

\* ------------------------------------------------------------ value domains
\* address(0)
NullAddress == "0x0"
\* address(this): the ledger's own identity in the store
This == "vault"
\* The externally owned accounts that send transactions.
Users == {"alice", "bob", "carol"}
\* What a caller passes as grantee: an account, or the null address.
Grantees == Users \cup {NullAddress}
Identities == Users \cup {NullAddress, This}
\* Document names a caller can pass; "" is the name of length 0.
Names == {"", "Doc One"}
\* String.prototype.trim on a name: leading and trailing spaces removed.
RECURSIVE trimStart(_)
trimStart(s) == IF Len(s) > 0 /\ Head(s) = " " THEN trimStart(Tail(s)) ELSE s
RECURSIVE trimEnd(_)
trimEnd(s) ==
    IF Len(s) > 0 /\ SubSeq(s, Len(s), Len(s)) = " "
    THEN trimEnd(SubSeq(s, 1, Len(s) - 1)) ELSE s
trim(s) == trimEnd(trimStart(s))
\* The names with the whitespace-only name a transaction can carry as well.
AllNames == Names \cup {" "}
\* Bodies a caller can pass; the ledger stores them verbatim.
Bodies == {"", "ciphertext"}
\* The plaintext secret each account encrypts when it creates a document
\* (the three secrets of the tests).
SecretOf ==
    [u \in Users |->
        CASE u = "alice" -> 123456789
          [] u = "bob" -> 987654321
          [] OTHER -> 111222333]
\* Ids a caller can pass: 0, the ids that can exist, and one past them.
DocIds == 0 .. (MaxDocs + 1)
\* Handles of the store; 0 is the uninitialised euint64.
NoHandle == 0
Handles == 0 .. MaxDocs

VARIABLES
    documentCount,      \* _documentCount
    documents,          \* _documents: id -> Document
    collaborators,      \* _collaborators: id -> the identities mapped to true
    collaboratorList,   \* _collaboratorList: id -> address[]
    acl,                \* the store: handle -> identities allowed on it
    plaintext,          \* the store: handle -> the confidential integer
    minted,             \* the store: number of handles minted
    now,                \* block.timestamp
    msg,                \* the latest transaction: function, sender, arguments
    result,             \* its outcome: the value returned or the error raised
    logs,               \* the events it emitted
    codec,              \* the latest call of encryptBody / decryptBody
    session,            \* VaultApp: the React state of the latest render
    tasks,              \* VaultApp: the async handlers in flight
    console,            \* the kind of the error console.error logged last
    calls               \* the number of requests the handlers have sent

client == <<codec, session, tasks, console, calls>>
chain == <<documentCount, documents, collaborators, collaboratorList,
           acl, plaintext, minted, now, msg, result, logs>>
ledger == <<documentCount, documents, collaborators, collaboratorList>>
store == <<acl, plaintext, minted>>
vars == <<documentCount, documents, collaborators, collaboratorList,
          acl, plaintext, minted, now, msg, result, logs,
          codec, session, tasks, console, calls>>

\* The value a mapping returns for a key that was never written.
ZeroDocument ==
    [name |-> "", encryptedBody |-> "", encryptedSecret |-> NoHandle,
     owner |-> NullAddress, updatedAt |-> 0]

\* The outcome of a transaction: it returned value, or it reverted with the
\* error kind, which carries a document id, a caller, or nothing.
Ok(value) == [status |-> "ok", value |-> value, caller |-> NullAddress]
Failed(kind, documentId, caller) ==
    [status |-> kind, value |-> documentId, caller |-> caller]

\* msg.sender and the call data of a transaction
Call(function, sender, documentId, account, text) ==
    [function |-> function, sender |-> sender, documentId |-> documentId,
     account |-> account, text |-> text]

DocumentCreated(documentId, owner, name) ==
    [event |-> "DocumentCreated", documentId |-> documentId,
     account |-> owner, text |-> name]
DocumentUpdated(documentId, editor, encryptedBody) ==
    [event |-> "DocumentUpdated", documentId |-> documentId,
     account |-> editor, text |-> encryptedBody]
AccessGranted(documentId, grantee) ==
    [event |-> "AccessGranted", documentId |-> documentId,
     account |-> grantee, text |-> ""]

\* ------------------------------------------------- the confidential store
\* FHE.isSenderAllowed(handle) for msg.sender = account
isSenderAllowed(handle, account) == account \in acl[handle]

\* Mutant of allow: the authorization is never recorded in the store.
allow_dropped(a, handle, account) == a

\* Mutant of allow: the account replaces the identities allowed before.
allow_replacing(a, handle, account) == [a EXCEPT ![handle] = {account}]

\* Mutant of allow: the account is allowed on every handle.
allow_onEveryHandle(a, handle, account) ==
    [h \in DOMAIN a |-> a[h] \cup {account}]

\* FHE.allow(handle, account) applied to the allow-list a
allow(a, handle, account) == [a EXCEPT ![handle] = @ \cup {account}]

\* The authority's user decryption of a handle for requester.
userDecrypt(handle, requester) ==
    IF requester \in acl[handle] THEN Ok(plaintext[handle])
    ELSE Failed("Unauthorized", 0, requester)

\* ---------------------------------------------------------------- the codec
\* Strings are JavaScript strings; byte arrays are sequences of 0 .. 255.
\* All strings over alphabet of at most n characters.
RECURSIVE StringsUpTo(_, _)
StringsUpTo(alphabet, n) ==
    IF n = 0 THEN {""}
    ELSE LET shorter == StringsUpTo(alphabet, n - 1)
         IN  shorter \cup {t \o c : t \in shorter, c \in alphabet}

\* The character at position i of a string, positions from 1.
charAt(text, i) == SubSeq(text, i, i)

\* Number.prototype.toString(10) of a non-negative integer
RECURSIVE decimal(_)
decimal(n) ==
    IF n < 10 THEN SubSeq("0123456789", n + 1, n + 1)
    ELSE decimal(n \div 10) \o SubSeq("0123456789", (n % 10) + 1, (n % 10) + 1)

HexDigits == "0123456789abcdef"
hexDigit(n) == charAt(HexDigits, n + 1)

\* Mutant of byteToHex: toString(16) without padStart(2, '0').
byteToHex_unpadded(b) ==
    IF b < 16 THEN hexDigit(b) ELSE hexDigit(b \div 16) \o hexDigit(b % 16)

\* b.toString(16).padStart(2, '0')
byteToHex(b) == hexDigit(b \div 16) \o hexDigit(b % 16)

RECURSIVE toHex(_)
toHex(buffer) ==
    IF Len(buffer) = 0 THEN ""
    ELSE byteToHex(Head(buffer)) \o toHex(Tail(buffer))

\* The value of a hexadecimal digit, -1 for any other character.
digitValue(c) ==
    IF \E n \in 0 .. 15 : hexDigit(n) = c
    THEN CHOOSE n \in 0 .. 15 : hexDigit(n) = c
    ELSE -1

\* parseInt(pair, 16) of a two-character string without sign, blank or
\* prefix: the value of the longest run of leading hex digits; -1 stands
\* for NaN, the result when the first character is no hex digit.
parseInt16(pair) ==
    LET hi == digitValue(charAt(pair, 1))
        lo == digitValue(charAt(pair, 2))
    IN  IF hi < 0 THEN -1
        ELSE IF lo < 0 THEN hi
        ELSE 16 * hi + lo

\* The element a Uint8Array stores for a number: NaN becomes 0.
toUint8(v) == IF v < 0 THEN 0 ELSE v % 256

\* fromHex: throws on an odd length, else one byte per pair of characters
fromHex(hex) ==
    IF Len(hex) % 2 # 0
    THEN [status |-> "InvalidEncoding", bytes |-> <<>>]
    ELSE [status |-> "ok",
          bytes |-> [i \in 1 .. (Len(hex) \div 2) |->
                        toUint8(parseInt16(SubSeq(hex, 2 * i - 1, 2 * i)))]]

\* The position of the first ':' of a string, 0 when it has none.
indexOfColon(text) ==
    IF \E i \in 1 .. Len(text) : charAt(text, i) = ":"
    THEN CHOOSE i \in 1 .. Len(text) :
            /\ charAt(text, i) = ":"
            /\ \A j \in 1 .. (i - 1) : charAt(text, j) # ":"
    ELSE 0

\* payload.split(':'): the pieces between all the colons
RECURSIVE split(_)
split(text) ==
    LET i == indexOfColon(text)
    IN  IF i = 0 THEN <<text>>
        ELSE <<SubSeq(text, 1, i - 1)>> \o split(SubSeq(text, i + 1, Len(text)))

\* The characters bodies are written in, with their UTF-8 bytes.
BodyAlphabet == {"h", "i", ":"}
utf8(c) == CASE c = "h" -> 104 [] c = "i" -> 105 [] c = ":" -> 58 [] OTHER -> 63

\* TextEncoder.encode
encode(text) == [i \in 1 .. Len(text) |-> utf8(charAt(text, i))]

\* TextDecoder.decode; "?" stands for the replacement character
RECURSIVE decode(_)
decode(bytes) ==
    IF Len(bytes) = 0 THEN ""
    ELSE (IF \E c \in BodyAlphabet : utf8(c) = Head(bytes)
          THEN CHOOSE c \in BodyAlphabet : utf8(c) = Head(bytes)
          ELSE "?") \o decode(Tail(bytes))

\* deriveKey: SHA-256 of the secret's characters, abstracted to one byte
\* that tells the secrets of the model apart.
RECURSIVE deriveKey(_)
deriveKey(secret) ==
    IF Len(secret) = 0 THEN 7
    ELSE (31 * deriveKey(SubSeq(secret, 1, Len(secret) - 1))
             + 48 + digitValue(charAt(secret, Len(secret)))) % 256

\* AES-GCM, abstracted: a keystream added byte by byte and a tag of
\* TagLength bytes over key, nonce and ciphertext.
NonceLength == 12
TagLength == 16
RECURSIVE Sum(_)
Sum(bytes) == IF Len(bytes) = 0 THEN 0 ELSE Head(bytes) + Sum(Tail(bytes))
keystream(key, iv, i) == (key + iv[((i - 1) % Len(iv)) + 1] + i) % 256
gcmTag(key, iv, data) ==
    [j \in 1 .. TagLength |->
        (key + 3 * Sum(iv) + 7 * Sum(data) + Len(data) + j) % 256]

\* crypto.subtle.encrypt({name: 'AES-GCM', iv}, key, data)
subtleEncrypt(key, iv, data) ==
    LET sealed == [i \in 1 .. Len(data) |->
                      (data[i] + keystream(key, iv, i)) % 256]
    IN  sealed \o gcmTag(key, iv, sealed)

\* crypto.subtle.decrypt: rejects when the tag does not verify
subtleDecrypt(key, iv, data) ==
    IF Len(data) < TagLength
    THEN [status |-> "AuthenticationFailure", bytes |-> <<>>]
    ELSE LET sealed == SubSeq(data, 1, Len(data) - TagLength)
             tag == SubSeq(data, Len(data) - TagLength + 1, Len(data))
         IN  IF tag # gcmTag(key, iv, sealed)
             THEN [status |-> "AuthenticationFailure", bytes |-> <<>>]
             ELSE [status |-> "ok",
                   bytes |-> [i \in 1 .. Len(sealed) |->
                       (sealed[i] + 256 - keystream(key, iv, i)) % 256]]

\* The nonces crypto.getRandomValues can draw, three of them.
Nonces ==
    {[i \in 1 .. NonceLength |-> 0],
     [i \in 1 .. NonceLength |-> (17 * i) % 256],
     [i \in 1 .. NonceLength |-> 255]}

\* encryptBody with the nonce iv it drew
encryptBody(secret, body, iv) ==
    toHex(iv) \o ":" \o toHex(subtleEncrypt(deriveKey(secret), iv, encode(body)))

\* What decryptBody returns or throws, and whether it called
\* crypto.subtle.decrypt on the way.
Decoded(status, text, decrypted) ==
    [status |-> status, text |-> text, decrypted |-> decrypted]

decryptBody(secret, payload) ==
    IF payload = "" THEN Decoded("ok", "", FALSE)
    ELSE LET parts == split(payload)
             ivHex == parts[1]
             dataHex == IF Len(parts) >= 2 THEN parts[2] ELSE ""
         IN  IF ivHex = "" \/ dataHex = ""
             THEN Decoded("MalformedPayload", "", FALSE)
             ELSE IF fromHex(ivHex).status # "ok" \/ fromHex(dataHex).status # "ok"
             THEN Decoded("InvalidEncoding", "", FALSE)
             ELSE LET opened == subtleDecrypt(deriveKey(secret),
                                    fromHex(ivHex).bytes, fromHex(dataHex).bytes)
                  IN  IF opened.status # "ok"
                      THEN Decoded(opened.status, "", TRUE)
                      ELSE Decoded("ok", decode(opened.bytes), TRUE)

\* The secrets as the session passes them: decimal strings.
Secrets == {decimal(SecretOf[u]) : u \in Users}
\* The bodies the codec is given to encrypt.
PlainBodies == StringsUpTo(BodyAlphabet, MaxBodyLen)
\* The payloads decryptBody is given as they are: hex digits, the colon and
\* a character that is no hex digit.
PayloadAlphabet == {"0", "a", ":", "g"}
Payloads == StringsUpTo(PayloadAlphabet, MaxPayloadLen)

\* codec: the call in progress, its inputs, where the payload comes from
\* ("given", "encryptBody", "altered"), the secret decryptBody was called
\* with and what it returned.
CodecCall(call, secret, body, payload, source, with, outcome) ==
    [call |-> call, secret |-> secret, body |-> body, payload |-> payload,
     source |-> source, with |-> with, outcome |-> outcome]
NoCodecCall == CodecCall("none", "", "", "", "none", "", Decoded("none", "", FALSE))

EncryptBody(iv) ==
    /\ codec.call = "input" /\ codec.source = "none"
    /\ codec' = [codec EXCEPT
           !.call = "encryptBody",
           !.payload = encryptBody(codec.secret, codec.body, iv),
           !.source = "encryptBody"]
    /\ UNCHANGED <<chain, session, tasks, console, calls>>

\* The payload is altered in one character before it is read back.
AlterPayload(i, c) ==
    /\ codec.call = "encryptBody"
    /\ i \in 1 .. Len(codec.payload)
    /\ charAt(codec.payload, i) # c
    /\ codec' = [codec EXCEPT
           !.call = "alter",
           !.payload = SubSeq(codec.payload, 1, i - 1) \o c
                          \o SubSeq(codec.payload, i + 1, Len(codec.payload)),
           !.source = "altered"]
    /\ UNCHANGED <<chain, session, tasks, console, calls>>

DecryptBody(secret) ==
    /\ codec.call \in {"input", "encryptBody", "alter"}
    /\ codec.source # "none"
    /\ codec' = [codec EXCEPT
           !.call = "decryptBody",
           !.with = secret,
           !.outcome = decryptBody(secret, codec.payload)]
    /\ UNCHANGED <<chain, session, tasks, console, calls>>

\* --------------------------------------------------------------- the ledger
\* A reverted transaction: no write and no event is committed.
Revert(error) ==
    /\ result' = error
    /\ logs' = <<>>
    /\ UNCHANGED <<ledger, store, now>>

LedgerInit ==
    /\ documentCount = 0
    /\ documents = [id \in DocIds |-> ZeroDocument]
    /\ collaborators = [id \in DocIds |-> {}]
    /\ collaboratorList = [id \in DocIds |-> <<>>]
    /\ acl = [h \in Handles |-> {}]
    /\ plaintext = [h \in Handles |-> 0]
    /\ minted = 0
    /\ now = 1
    /\ msg = Call("constructor", "deployer", 0, NullAddress, "")
    /\ result = Ok(0)
    /\ logs = <<>>

\* The connected wallet: useAccount().address
address == "alice"
\* The async handlers of VaultApp.
Handlers == {"handleCreateDocument", "decryptSecret", "updateBody", "grantAccess"}

\* The state a render of VaultApp holds (useState); selectedId 0 is null.
Render(selectedId, clearSecret, bodyDraft, decryptedBody) ==
    [selectedId |-> selectedId, clearSecret |-> clearSecret,
     bodyDraft |-> bodyDraft, decryptedBody |-> decryptedBody,
     status |-> "", isSubmitting |-> FALSE, isUpdating |-> FALSE,
     isDecrypting |-> FALSE, isGranting |-> FALSE]

\* A handler in flight: where it waits (pc), what its closure captured from
\* the render it was called in, what it sent (input) and what came back.
Task(pc, selectedId, activeDocument, clearSecret, bodyDraft, input, reply) ==
    [pc |-> pc, selectedId |-> selectedId, activeDocument |-> activeDocument,
     clearSecret |-> clearSecret, bodyDraft |-> bodyDraft,
     input |-> input, reply |-> reply]
IdleTask == Task("idle", 0, ZeroDocument, "", "", "", Ok(0))

Init ==
    /\ LedgerInit
    /\ codec = NoCodecCall
    /\ session = Render(0, "", "", "")
    /\ tasks = [h \in Handlers |-> IdleTask]
    /\ console = ""
    /\ calls = 0

\* The errors with what each carries: DocumentNotFound(documentId),
\* NotDocumentOwner(caller), Unauthorized(caller); the others nothing.
Error(kind, documentId, sender) ==
    CASE kind = "DocumentNotFound" -> Failed(kind, documentId, NullAddress)
      [] kind \in {"NotDocumentOwner", "Unauthorized"} -> Failed(kind, 0, sender)
      [] OTHER -> Failed(kind, 0, NullAddress)

\* createDocument: the check that makes it revert, "ok" when it goes through
createDocumentError(name) ==
    IF Len(name) = 0 THEN "EmptyName" ELSE "ok"

\* Mutant of nextDocumentId: ids are allocated from 0.
nextDocumentId_zeroBased(count) == count

\* createDocument: the id allocated (_documentCount += 1; documentId = it)
nextDocumentId(count) == count + 1

\* Mutant of newDocument: the body starts as the name, not empty.
newDocument_namedBody(name, secret, sender) ==
    [name |-> name, encryptedBody |-> name, encryptedSecret |-> secret,
     owner |-> sender, updatedAt |-> now]

\* Mutant of newDocument: the ledger itself is recorded as the owner.
newDocument_ownedByLedger(name, secret, sender) ==
    [name |-> name, encryptedBody |-> "", encryptedSecret |-> secret,
     owner |-> This, updatedAt |-> now]

\* createDocument: the Document stored under the new id
newDocument(name, secret, sender) ==
    [name |-> name, encryptedBody |-> "", encryptedSecret |-> secret,
     owner |-> sender, updatedAt |-> now]

CreateDocument(name, secretPlaintext, sender) ==
    /\ msg' = Call("createDocument", sender, 0, NullAddress, name)
    /\ IF createDocumentError(name) # "ok"
       THEN Revert(Error(createDocumentError(name), 0, sender))
       ELSE
        /\ documentCount < MaxDocs
        /\ LET secret == minted + 1
               documentId == nextDocumentId(documentCount)
           IN  /\ minted' = secret
               /\ plaintext' = [plaintext EXCEPT ![secret] = secretPlaintext]
               /\ documentCount' = documentCount + 1
               /\ documents' = [documents EXCEPT
                      ![documentId] = newDocument(name, secret, sender)]
               /\ collaborators' = [collaborators EXCEPT
                      ![documentId] = @ \cup {sender}]
               /\ collaboratorList' = [collaboratorList EXCEPT
                      ![documentId] = Append(@, sender)]
               /\ acl' = allow(allow(acl, secret, sender), secret, This)
               /\ logs' = <<DocumentCreated(documentId, sender, name)>>
               /\ result' = Ok(documentId)
               /\ UNCHANGED now

\* Mutant of grantAccessError: any collaborator may grant, not only the owner.
grantAccessError_delegable(doc, grantee, sender) ==
    IF doc.owner = NullAddress THEN "DocumentNotFound"
    ELSE IF \A id \in DocIds :
                documents[id] = doc => sender \notin collaborators[id]
         THEN "NotDocumentOwner"
    ELSE IF grantee = NullAddress THEN "InvalidAddress"
    ELSE "ok"

\* Mutant of grantAccessError: the null grantee is not rejected.
grantAccessError_anyGrantee(doc, grantee, sender) ==
    IF doc.owner = NullAddress THEN "DocumentNotFound"
    ELSE IF doc.owner # sender THEN "NotDocumentOwner"
    ELSE "ok"

\* Mutant of grantAccessError: the grantee is validated before the owner.
grantAccessError_granteeFirst(doc, grantee, sender) ==
    IF doc.owner = NullAddress THEN "DocumentNotFound"
    ELSE IF grantee = NullAddress THEN "InvalidAddress"
    ELSE IF doc.owner # sender THEN "NotDocumentOwner"
    ELSE "ok"

\* grantAccess: the first failing check, in the order the code makes them
grantAccessError(doc, grantee, sender) ==
    IF doc.owner = NullAddress THEN "DocumentNotFound"
    ELSE IF doc.owner # sender THEN "NotDocumentOwner"
    ELSE IF grantee = NullAddress THEN "InvalidAddress"
    ELSE "ok"

\* Mutant of pushCollaborator: the grantee is pushed on every grant.
pushCollaborator_always(list, members, grantee) == Append(list, grantee)

\* Mutant of pushCollaborator: a new grantee is put at the head of the list.
pushCollaborator_atHead(list, members, grantee) ==
    IF grantee \notin members THEN <<grantee>> \o list ELSE list

\* grantAccess: the collaborator list after the membership-guarded push
pushCollaborator(list, members, grantee) ==
    IF grantee \notin members THEN Append(list, grantee) ELSE list

GrantAccess(documentId, grantee, sender) ==
    LET doc == documents[documentId]
        err == grantAccessError(doc, grantee, sender)
    IN  /\ msg' = Call("grantAccess", sender, documentId, grantee, "")
        /\ IF err # "ok"
           THEN Revert(Error(err, documentId, sender))
           ELSE
            /\ collaboratorList' = [collaboratorList EXCEPT
                   ![documentId] =
                       pushCollaborator(@, collaborators[documentId], grantee)]
            /\ collaborators' = [collaborators EXCEPT
                   ![documentId] = @ \cup {grantee}]
            /\ acl' = allow(acl, doc.encryptedSecret, grantee)
            /\ logs' = <<AccessGranted(documentId, grantee)>>
            /\ result' = Ok(0)
            /\ UNCHANGED <<documentCount, documents, plaintext, minted, now>>

\* Mutant of updateDocumentBodyError: only the owner may write.
updateDocumentBodyError_ownerOnly(doc, sender) ==
    IF doc.owner = NullAddress THEN "DocumentNotFound"
    ELSE IF doc.owner # sender THEN "Unauthorized"
    ELSE "ok"

\* Mutant of updateDocumentBodyError: the store is not asked.
updateDocumentBodyError_unchecked(doc, sender) ==
    IF doc.owner = NullAddress THEN "DocumentNotFound" ELSE "ok"

\* Mutant of updateDocumentBodyError: the ledger's own ACL set is asked.
updateDocumentBodyError_ledgerAcl(doc, sender) ==
    IF doc.owner = NullAddress THEN "DocumentNotFound"
    ELSE IF \A id \in DocIds :
                documents[id] = doc => sender \notin collaborators[id]
         THEN "Unauthorized"
    ELSE "ok"

\* updateDocumentBody: the first failing check
updateDocumentBodyError(doc, sender) ==
    IF doc.owner = NullAddress THEN "DocumentNotFound"
    ELSE IF ~isSenderAllowed(doc.encryptedSecret, sender) THEN "Unauthorized"
    ELSE "ok"

\* Mutant of updatedDocument: the timestamp is not written.
updatedDocument_keepsTime(doc, encryptedBody) ==
    [doc EXCEPT !.encryptedBody = encryptedBody]

\* Mutant of updatedDocument: only the timestamp is written.
updatedDocument_staleBody(doc, encryptedBody) ==
    [doc EXCEPT !.updatedAt = now]

\* updateDocumentBody: the document after the two writes
updatedDocument(doc, encryptedBody) ==
    [doc EXCEPT !.encryptedBody = encryptedBody, !.updatedAt = now]

UpdateDocumentBody(documentId, encryptedBody, sender) ==
    LET doc == documents[documentId]
        err == updateDocumentBodyError(doc, sender)
    IN  /\ msg' = Call("updateDocumentBody", sender, documentId,
                        NullAddress, encryptedBody)
        /\ IF err # "ok"
           THEN Revert(Error(err, documentId, sender))
           ELSE
            /\ documents' = [documents EXCEPT
                   ![documentId] = updatedDocument(doc, encryptedBody)]
            /\ acl' = allow(acl, doc.encryptedSecret, sender)
            /\ logs' = <<DocumentUpdated(documentId, sender, encryptedBody)>>
            /\ result' = Ok(0)
            /\ UNCHANGED <<documentCount, collaborators, collaboratorList,
                           plaintext, minted, now>>

\* A later block: block.timestamp grows.
Tick ==
    /\ now <= MaxTicks
    /\ now' = now + 1
    /\ UNCHANGED <<ledger, store, msg, result, logs>>

\* A transaction sent to the store, not to the ledger: sender, allowed on
\* handle, has the store allow account on it.  The call record holds the
\* handle in the place of the document id.
StoreAllow(handle, account, sender) ==
    /\ handle \in 1 .. minted
    /\ isSenderAllowed(handle, sender)
    /\ account \notin acl[handle]
    /\ msg' = Call("allow", sender, handle, account, "")
    /\ acl' = allow(acl, handle, account)
    /\ logs' = <<>>
    /\ result' = Ok(0)
    /\ UNCHANGED <<ledger, plaintext, minted, now>>

\* ------------------------------------------------------------------- views
getDocument(documentId) ==
    IF documents[documentId].owner = NullAddress
    THEN Failed("DocumentNotFound", documentId, NullAddress)
    ELSE Ok(documents[documentId])

isAuthorized(documentId, user) ==
    IF documents[documentId].owner = NullAddress
    THEN Failed("DocumentNotFound", documentId, NullAddress)
    ELSE Ok(user \in collaborators[documentId])

getCollaborators(documentId) ==
    IF documents[documentId].owner = NullAddress
    THEN Failed("DocumentNotFound", documentId, NullAddress)
    ELSE Ok(collaboratorList[documentId])

getDocumentCount == documentCount

\* Mutant of getDocuments: the loop copies _documents[i], not _documents[i + 1].
getDocuments_offByOne == [i \in 0 .. documentCount - 1 |-> documents[i]]

\* getDocuments: the array whose index i holds _documents[i + 1]
getDocuments == [i \in 0 .. documentCount - 1 |-> documents[i + 1]]

\* revealSecret: the authority decrypts the document's handle for requester
revealSecret(documentId, requester) ==
    userDecrypt(documents[documentId].encryptedSecret, requester)

Next ==
    \/ \E name \in Names, sender \in Users :
           CreateDocument(name, SecretOf[sender], sender) /\ UNCHANGED client
    \/ \E documentId \in DocIds, grantee \in Grantees, sender \in Users :
           GrantAccess(documentId, grantee, sender) /\ UNCHANGED client
    \/ \E documentId \in DocIds, encryptedBody \in Bodies, sender \in Users :
           UpdateDocumentBody(documentId, encryptedBody, sender)
               /\ UNCHANGED client

Spec == Init /\ [][Next]_vars

\* The same ledger with block.timestamp advancing between transactions.
NextClock == Next \/ (Tick /\ UNCHANGED client)
SpecClock == Init /\ [][NextClock]_vars

\* The same ledger with a store that is also changed from outside.
NextDrift ==
    \/ Next
    \/ \E handle \in Handles, account \in Users, sender \in Users :
           StoreAllow(handle, account, sender) /\ UNCHANGED client
SpecDrift == Init /\ [][NextDrift]_vars

\* The ledger called directly, with names the front end would have trimmed.
NextBlank ==
    \/ \E name \in AllNames, sender \in Users :
           CreateDocument(name, SecretOf[sender], sender) /\ UNCHANGED client
    \/ \E documentId \in DocIds, grantee \in Grantees, sender \in Users :
           GrantAccess(documentId, grantee, sender) /\ UNCHANGED client
    \/ \E documentId \in DocIds, encryptedBody \in Bodies, sender \in Users :
           UpdateDocumentBody(documentId, encryptedBody, sender)
               /\ UNCHANGED client
SpecBlank == Init /\ [][NextBlank]_vars

\* The codec on its own: a body to encrypt or a payload to decrypt is given,
\* then encryptBody, an alteration of the payload and decryptBody are applied.
InitCodec ==
    /\ LedgerInit
    /\ codec \in
          {CodecCall("input", secret, body, "", "none", "",
                     Decoded("none", "", FALSE)) :
               secret \in Secrets, body \in PlainBodies}
          \cup
          {CodecCall("input", secret, "", payload, "given", "",
                     Decoded("none", "", FALSE)) :
               secret \in Secrets, payload \in Payloads}
    /\ session = Render(0, "", "", "")
    /\ tasks = [h \in Handlers |-> IdleTask]
    /\ console = ""
    /\ calls = 0
NextCodec ==
    \/ \E iv \in Nonces : EncryptBody(iv)
    \/ \E i \in 1 .. Len(codec.payload), c \in PayloadAlphabet :
           AlterPayload(i, c)
    \/ \E secret \in Secrets : DecryptBody(secret)
SpecCodec == InitCodec /\ [][NextCodec]_vars

\* -------------------------------------------------------------- the session
\* The texts the user types into the body editor.
Drafts == {"", "hi"}
\* The addresses the user types as collaborator; "" is the empty field.
Targets == Users \cup {NullAddress, ""}
\* The document of the selection: documents[selectedId - 1] of getDocuments.
activeDocument ==
    IF session.selectedId - 1 \in DOMAIN getDocuments
    THEN getDocuments[session.selectedId - 1]
    ELSE ZeroDocument
InFlight == {h \in Handlers : tasks[h].pc # "idle"}
\* The closure of a handler called in the current render.
Called(pc, input) ==
    Task(pc, session.selectedId, activeDocument, session.clearSecret,
         session.bodyDraft, input, Ok(0))

\* The status each handler sets in its catch block, whatever was thrown.
catchStatus(h) ==
    CASE h = "handleCreateDocument" ->
            "Failed to create document. Make sure you are on Sepolia and have funds for gas."
      [] h = "decryptSecret" ->
            "Failed to decrypt. Ensure you have been granted access."
      [] h = "updateBody" ->
            "Update failed. Confirm you have ACL to this document."
      [] OTHER ->
            "Unable to grant access. Only the owner can share the document."

\* A document card is clicked; the effect on selectedId clears the secret,
\* the decrypted body and the draft.
SelectDocument(id) ==
    /\ id \in 1 .. documentCount
    /\ id # session.selectedId
    /\ session' = [session EXCEPT !.selectedId = id, !.clearSecret = "",
                       !.decryptedBody = "", !.bodyDraft = ""]
    /\ UNCHANGED <<chain, codec, tasks, console, calls>>

\* The body editor, enabled once a secret is held and no update runs.
EditDraft(text) ==
    /\ session.selectedId # 0
    /\ session.clearSecret # "" /\ ~session.isUpdating
    /\ text # session.bodyDraft
    /\ session' = [session EXCEPT !.bodyDraft = text]
    /\ UNCHANGED <<chain, codec, tasks, console, calls>>

\* The external call a waiting handler made fails on the way (the wallet
\* rejects, the network or the relayer is down): nothing reaches the ledger.
TransportFailure(h) ==
    /\ tasks[h].pc = "waiting"
    /\ tasks' = [tasks EXCEPT ![h].pc = "replied",
                     ![h].reply = Failed("TransportFailure", 0, NullAddress)]
    /\ UNCHANGED <<chain, codec, session, console, calls>>

\* decryptSecret up to the request to the relayer
StartDecrypt ==
    /\ session.selectedId # 0
    /\ ~session.isDecrypting /\ tasks["decryptSecret"].pc = "idle"
    /\ calls < MaxCalls /\ calls' = calls + 1
    /\ session' = [session EXCEPT !.isDecrypting = TRUE,
                       !.status = "Requesting decryption from the relayer..."]
    /\ tasks' = [tasks EXCEPT !["decryptSecret"] = Called("waiting", "")]
    /\ UNCHANGED <<chain, codec, console>>

\* The relayer answers instance.userDecrypt for the handle of the closure.
RelayerReply ==
    /\ tasks["decryptSecret"].pc = "waiting"
    /\ tasks' = [tasks EXCEPT
           !["decryptSecret"].pc = "replied",
           !["decryptSecret"].reply =
               userDecrypt(tasks["decryptSecret"].activeDocument.encryptedSecret,
                           address)]
    /\ UNCHANGED <<chain, codec, session, console, calls>>

\* decryptSecret from the relayer's answer to the call of decryptBody
ContinueDecrypt ==
    LET task == tasks["decryptSecret"]
    IN  /\ task.pc = "replied"
        /\ IF task.reply.status = "ok" /\ task.reply.value # 0
           THEN /\ session' = [session EXCEPT
                       !.clearSecret = decimal(task.reply.value),
                       !.status = "Secret decrypted. You can now read and edit the document body.",
                       !.isDecrypting = (task.activeDocument.encryptedBody # "")]
                /\ tasks' = [tasks EXCEPT !["decryptSecret"] =
                       IF task.activeDocument.encryptedBody # ""
                       THEN [task EXCEPT !.pc = "codec"] ELSE IdleTask]
                /\ UNCHANGED console
           ELSE /\ console' = (IF task.reply.status = "ok" THEN "NoSecret"
                                ELSE task.reply.status)
                /\ session' = [session EXCEPT
                       !.status = catchStatus("decryptSecret"),
                       !.isDecrypting = FALSE]
                /\ tasks' = [tasks EXCEPT !["decryptSecret"] = IdleTask]
        /\ UNCHANGED <<chain, codec, calls>>

\* decryptSecret from the result of decryptBody to its end
FinishDecrypt ==
    LET task == tasks["decryptSecret"]
        plainBody == decryptBody(decimal(task.reply.value),
                                 task.activeDocument.encryptedBody)
    IN  /\ task.pc = "codec"
        /\ IF plainBody.status = "ok"
           THEN /\ session' = [session EXCEPT
                       !.decryptedBody = plainBody.text,
                       !.bodyDraft = plainBody.text,
                       !.isDecrypting = FALSE]
                /\ UNCHANGED console
           ELSE /\ console' = plainBody.status
                /\ session' = [session EXCEPT
                       !.status = catchStatus("decryptSecret"),
                       !.isDecrypting = FALSE]
        /\ tasks' = [tasks EXCEPT !["decryptSecret"] = IdleTask]
        /\ UNCHANGED <<chain, codec, calls>>

\* updateBody up to the transaction it sends
StartUpdate(iv) ==
    /\ session.selectedId # 0
    /\ session.clearSecret # "" /\ ~session.isUpdating
    /\ tasks["updateBody"].pc = "idle"
    /\ calls < MaxCalls /\ calls' = calls + 1
    /\ session' = [session EXCEPT !.isUpdating = TRUE,
           !.status = "Encrypting document body and sending transaction..."]
    /\ tasks' = [tasks EXCEPT !["updateBody"] =
           Called("waiting",
                  encryptBody(session.clearSecret, session.bodyDraft, iv))]
    /\ UNCHANGED <<chain, codec, console>>

\* The transaction of updateBody is mined.
UpdateMined ==
    /\ tasks["updateBody"].pc = "waiting"
    /\ UpdateDocumentBody(tasks["updateBody"].selectedId,
                          tasks["updateBody"].input, address)
    /\ tasks' = [tasks EXCEPT !["updateBody"].pc = "replied",
                     !["updateBody"].reply = result']
    /\ UNCHANGED <<codec, session, console, calls>>

\* updateBody after tx.wait()
ContinueUpdate ==
    LET task == tasks["updateBody"]
    IN  /\ task.pc = "replied"
        /\ IF task.reply.status = "ok"
           THEN /\ session' = [session EXCEPT
                       !.decryptedBody = task.bodyDraft,
                       !.status = "Document updated on-chain.",
                       !.isUpdating = FALSE]
                /\ UNCHANGED console
           ELSE /\ console' = task.reply.status
                /\ session' = [session EXCEPT
                       !.status = catchStatus("updateBody"),
                       !.isUpdating = FALSE]
        /\ tasks' = [tasks EXCEPT !["updateBody"] = IdleTask]
        /\ UNCHANGED <<chain, codec, calls>>

\* handleCreateDocument up to the transaction it sends
StartCreate(nameInput) ==
    /\ ~session.isSubmitting /\ tasks["handleCreateDocument"].pc = "idle"
    /\ IF trim(nameInput) = ""
       THEN /\ session' = [session EXCEPT
                   !.status = "Please give your document a name."]
            /\ UNCHANGED <<tasks, calls>>
       ELSE /\ calls < MaxCalls /\ calls' = calls + 1
            /\ session' = [session EXCEPT !.isSubmitting = TRUE,
                   !.status = "Encrypting your document key with Zama..."]
            /\ tasks' = [tasks EXCEPT !["handleCreateDocument"] =
                   Called("waiting", trim(nameInput))]
    /\ UNCHANGED <<chain, codec, console>>

\* The transaction of handleCreateDocument is mined.
CreateMined ==
    /\ tasks["handleCreateDocument"].pc = "waiting"
    /\ CreateDocument(tasks["handleCreateDocument"].input,
                      SecretOf[address], address)
    /\ tasks' = [tasks EXCEPT !["handleCreateDocument"].pc = "replied",
                     !["handleCreateDocument"].reply = result']
    /\ UNCHANGED <<codec, session, console, calls>>

\* handleCreateDocument after tx.wait()
ContinueCreate ==
    LET task == tasks["handleCreateDocument"]
    IN  /\ task.pc = "replied"
        /\ IF task.reply.status = "ok"
           THEN /\ session' = [session EXCEPT
                       !.status = "Document stored on-chain.",
                       !.isSubmitting = FALSE]
                /\ UNCHANGED console
           ELSE /\ console' = task.reply.status
                /\ session' = [session EXCEPT
                       !.status = catchStatus("handleCreateDocument"),
                       !.isSubmitting = FALSE]
        /\ tasks' = [tasks EXCEPT !["handleCreateDocument"] = IdleTask]
        /\ UNCHANGED <<chain, codec, calls>>

\* grantAccess of VaultApp up to the transaction it sends
StartGrant(grantTarget) ==
    /\ session.selectedId # 0
    /\ ~session.isGranting /\ tasks["grantAccess"].pc = "idle"
    /\ IF grantTarget = ""
       THEN /\ session' = [session EXCEPT
                   !.status = "Enter an address to grant access."]
            /\ UNCHANGED <<tasks, calls>>
       ELSE /\ calls < MaxCalls /\ calls' = calls + 1
            /\ session' = [session EXCEPT !.isGranting = TRUE,
                   !.status = "Granting access..."]
            /\ tasks' = [tasks EXCEPT !["grantAccess"] =
                   Called("waiting", grantTarget)]
    /\ UNCHANGED <<chain, codec, console>>

\* The transaction of grantAccess is mined.
GrantMined ==
    /\ tasks["grantAccess"].pc = "waiting"
    /\ GrantAccess(tasks["grantAccess"].selectedId,
                   tasks["grantAccess"].input, address)
    /\ tasks' = [tasks EXCEPT !["grantAccess"].pc = "replied",
                     !["grantAccess"].reply = result']
    /\ UNCHANGED <<codec, session, console, calls>>

\* grantAccess of VaultApp after tx.wait()
ContinueGrant ==
    LET task == tasks["grantAccess"]
    IN  /\ task.pc = "replied"
        /\ IF task.reply.status = "ok"
           THEN /\ session' = [session EXCEPT
                       !.status = "Access granted. Collaborator can now decrypt the secret.",
                       !.isGranting = FALSE]
                /\ UNCHANGED console
           ELSE /\ console' = task.reply.status
                /\ session' = [session EXCEPT
                       !.status = catchStatus("grantAccess"),
                       !.isGranting = FALSE]
        /\ tasks' = [tasks EXCEPT !["grantAccess"] = IdleTask]
        /\ UNCHANGED <<chain, codec, calls>>

\* What the other accounts have committed on the ledger when the session
\* starts: documents of their own, grants to the session's account, bodies
\* written without the codec.
OtherAccount ==
    \E sender \in Users \ {address} :
        /\ session = Render(0, "", "", "") /\ InFlight = {}
        /\ \/ CreateDocument("Doc One", SecretOf[sender], sender)
           \/ \E documentId \in DocIds :
                  GrantAccess(documentId, address, sender)
           \/ \E documentId \in DocIds :
                  UpdateDocumentBody(documentId, "ciphertext", sender)
        /\ result'.status = "ok"
        /\ UNCHANGED client

\* The steps the session's own code takes.
SessionStep ==
    \/ \E id \in DocIds : SelectDocument(id)
    \/ \E text \in Drafts : EditDraft(text)
    \/ StartDecrypt
    \/ ContinueDecrypt
    \/ FinishDecrypt
    \/ \E iv \in Nonces : StartUpdate(iv)
    \/ ContinueUpdate
    \/ \E nameInput \in AllNames : StartCreate(nameInput)
    \/ ContinueCreate
    \/ \E grantTarget \in Targets : StartGrant(grantTarget)
    \/ ContinueGrant
\* What the wallet, the network, the relayer and the ledger do.
Environment ==
    \/ RelayerReply
    \/ UpdateMined
    \/ CreateMined
    \/ GrantMined
    \/ \E h \in Handlers : TransportFailure(h)
    \/ OtherAccount
NextSession == SessionStep \/ Environment
SpecSession == Init /\ [][NextSession]_vars

\* ------------------------------------------------------------------ claims
Exists(d) == documents[d].owner # NullAddress
Owner(d) == documents[d].owner
Handle(d) == documents[d].encryptedSecret
Body(d) == documents[d].encryptedBody

\* The transaction a step commits or reverts.
IsGrant(d, grantee, sender) == Call("grantAccess", sender, d, grantee, "")
IsUpdate(d, body, sender) ==
    Call("updateDocumentBody", sender, d, NullAddress, body)
IsCreate(name, sender) == Call("createDocument", sender, 0, NullAddress, name)

C2_GrantNotDelegable ==
    [][msg'.function = "grantAccess" =>
        \A d \in DocIds, grantee \in Grantees, requester \in Users :
          (Exists(d) /\ requester # Owner(d)
              /\ msg' = IsGrant(d, grantee, requester))
          => /\ result' = Failed("NotDocumentOwner", 0, requester)
             /\ UNCHANGED <<collaborators, collaboratorList, acl>>]_vars

\* A collaborator that is not the owner tried to grant access to an account
\* that has none, and was refused.
C2_Witness ==
    \E d \in DocIds, grantee \in Users, requester \in Users :
        /\ Exists(d) /\ requester # Owner(d)
        /\ requester \in collaborators[d]
        /\ requester \in acl[Handle(d)]
        /\ msg = IsGrant(d, grantee, requester)
        /\ result.status = "NotDocumentOwner"
        /\ grantee \notin collaborators[d]
        /\ grantee \notin acl[Handle(d)]

C4_WriteAuthorizedAtomically ==
    [][\A d \in DocIds :
          /\ Body(d)' # Body(d)
                => \E c \in Bodies, x \in Users :
                      /\ msg' = IsUpdate(d, c, x)
                      /\ x \in acl[Handle(d)]
                      /\ result' = Ok(0)
                      /\ Body(d)' = c
          /\ msg'.function = "updateDocumentBody" =>
              \A c \in Bodies, x \in Users :
                (msg' = IsUpdate(d, c, x))
                => \/ /\ result' = Ok(0)
                      /\ Exists(d) /\ x \in acl[Handle(d)]
                      /\ Body(d)' = c
                      /\ documents'[d].updatedAt = now
                      /\ logs' = <<DocumentUpdated(d, x, c)>>
                   \/ /\ result'.status # "ok"
                      /\ ~(Exists(d) /\ x \in acl[Handle(d)])
                      /\ logs' = <<>>
                      /\ UNCHANGED <<ledger, store>>]_vars

\* The owner has overwritten the body of a document that two other accounts
\* are allowed to write as well.
C4_Witness ==
    \E d \in DocIds :
        /\ Exists(d)
        /\ acl[Handle(d)] = Users \cup {This}
        /\ msg = IsUpdate(d, "ciphertext", Owner(d))
        /\ logs = <<DocumentUpdated(d, Owner(d), "ciphertext")>>
        /\ Body(d) = "ciphertext"

\* The identities at positions 1 .. Len of a list.
Range(list) == {list[i] : i \in 1 .. Len(list)}
NoDuplicates(list) ==
    \A i, j \in 1 .. Len(list) : i # j => list[i] # list[j]

(* C5: for every existing document d, getCollaborators(d) holds no         *)
(* identity twice and holds x iff isAuthorized(d, x); and the list is in   *)
(* first-authorization order: a step leaves it as it was or appends, at    *)
(* its end, the one identity that the step newly authorizes.               *)
C5_CollaboratorListIsAcl ==
    /\ [](\A d \in DocIds : Exists(d) =>
            /\ NoDuplicates(getCollaborators(d).value)
            /\ \A x \in Identities :
                  (x \in Range(getCollaborators(d).value))
                      <=> isAuthorized(d, x).value)
    /\ [][\A d \in DocIds :
            LET new == collaborators'[d] \ collaborators[d]
            IN  IF new = {}
                THEN collaboratorList'[d] = collaboratorList[d]
                ELSE \E x \in new :
                        /\ new = {x}
                        /\ collaboratorList'[d] =
                               Append(collaboratorList[d], x)]_vars

\* A document with three collaborators, written by the one granted last.
C5_Witness ==
    \E d \in DocIds :
        /\ Exists(d)
        /\ Len(collaboratorList[d]) = 3
        /\ collaboratorList[d][1] = Owner(d)
        /\ msg = IsUpdate(d, "ciphertext", collaboratorList[d][3])
        /\ result = Ok(0)

(* C6: the existing documents are exactly the ids 1 .. documentCount;      *)
(* documentCount never decreases; it changes only in a successful          *)
(* createDocument; and every successful createDocument returns the id      *)
(* documentCount + 1, which did not exist before, and leaves documentCount *)
(* equal to it, whatever calls came in between.                            *)
C6_DenseIds ==
    /\ []({d \in DocIds : Exists(d)} = 1 .. getDocumentCount)
    /\ [][/\ documentCount' >= documentCount
          /\ documentCount' # documentCount
                => /\ msg'.function = "createDocument"
                   /\ result' = Ok(documentCount + 1)
          /\ (msg'.function = "createDocument" /\ result'.status = "ok") =>
              \A name \in Names, sender \in Users, id \in DocIds :
                (id = documentCount + 1
                    /\ CreateDocument(name, SecretOf[sender], sender))
                => /\ result'.value = id
                   /\ documentCount' = id
                   /\ ~Exists(id)
                   /\ Exists(id)'
                   /\ \A d \in DocIds :
                         Exists(d) => documents'[d] = documents[d]]_vars

\* The second creation returned id 2 after a grant and an update on
\* document 1.
C6_Witness ==
    /\ documentCount = 2
    /\ msg.function = "createDocument"
    /\ result = Ok(2)
    /\ Cardinality(collaborators[1]) >= 2
    /\ Body(1) = "ciphertext"

(* C7: right after a successful createDocument(name, secret, requester)    *)
(* that returned id: getDocument(id) has that name, owner requester and    *)
(* an empty body; isAuthorized(id, x) holds for requester only;            *)
(* getCollaborators(id) is <<requester>>; and the store decrypts the       *)
(* document's handle for requester to the secret supplied.                 *)
C7_StateAfterCreate ==
    [][(msg'.function = "createDocument" /\ result'.status = "ok") =>
        \A name \in Names, requester \in Users, id \in DocIds :
              (result' = Ok(id)
                  /\ CreateDocument(name, SecretOf[requester], requester))
              => /\ id = documentCount'
                 /\ getDocument(id)'.status = "ok"
                 /\ getDocument(id)'.value.name = name
                 /\ getDocument(id)'.value.owner = requester
                 /\ getDocument(id)'.value.encryptedBody = ""
                 /\ \A x \in Identities :
                       isAuthorized(id, x)'.value <=> (x = requester)
                 /\ getCollaborators(id)'.value = <<requester>>
                 /\ revealSecret(id, requester)' = Ok(SecretOf[requester])]_vars

\* A second document was just created by an account other than the owner of
\* the first, with its own secret.
C7_Witness ==
    \E requester \in Users :
        /\ msg = IsCreate("Doc One", requester)
        /\ result = Ok(2)
        /\ Owner(2) = requester /\ Owner(1) # requester
        /\ collaboratorList[2] = <<requester>>
        /\ plaintext[Handle(2)] = SecretOf[requester]
        /\ plaintext[Handle(1)] # plaintext[Handle(2)]

(* C8: when the owner grants an identity that is already authorized (the   *)
(* owner itself included) the call succeeds, the collaborator list and the *)
(* ACL set of every document stay as they were, the store allows the       *)
(* grantee on the handle afterwards and AccessGranted is emitted.          *)
C8_GrantIdempotent ==
    [][msg'.function = "grantAccess" =>
        \A d \in DocIds, grantee \in Users :
          (Exists(d) /\ grantee \in collaborators[d]
              /\ msg' = IsGrant(d, grantee, Owner(d)))
          => /\ result' = Ok(0)
             /\ getCollaborators(d)' = getCollaborators(d)
             /\ UNCHANGED <<collaborators, collaboratorList>>
             /\ grantee \in acl'[Handle(d)]
             /\ logs' = <<AccessGranted(d, grantee)>>]_vars

\* The owner granted the second collaborator again after a third had been
\* added, and granted itself.
C8_Witness ==
    \E d \in DocIds :
        /\ Exists(d)
        /\ Len(collaboratorList[d]) = 3
        /\ msg \in {IsGrant(d, collaboratorList[d][2], Owner(d)),
                    IsGrant(d, Owner(d), Owner(d))}
        /\ result = Ok(0)
        /\ logs = <<AccessGranted(d, msg.account)>>

\* A step that commits nothing: ledger and store as before, no event.
NothingCommitted == logs' = <<>> /\ UNCHANGED <<ledger, store>>

(* C9: a mutation that fails leaves documentCount, every document, every   *)
(* ACL set and collaborator list and the store as they were and emits no   *)
(* event: createDocument with the empty name (EmptyName); grantAccess on   *)
(* an unknown id (DocumentNotFound), by a non-owner (NotDocumentOwner) or  *)
(* to the null address (InvalidAddress); updateDocumentBody on an unknown  *)
(* id (DocumentNotFound) or by a sender the store does not allow           *)
(* (Unauthorized).                                                         *)
C9_FailureChangesNothing ==
    [][/\ \A sender \in Users :
            (msg' = IsCreate("", sender))
            => (result'.status = "EmptyName" /\ NothingCommitted)
       /\ msg'.function = "grantAccess" =>
          \A d \in DocIds, grantee \in Grantees, sender \in Users :
            (msg' = IsGrant(d, grantee, sender)
                /\ (~Exists(d) \/ sender # Owner(d) \/ grantee = NullAddress))
            => /\ result'.status \in
                     {"DocumentNotFound", "NotDocumentOwner", "InvalidAddress"}
               /\ NothingCommitted
       /\ msg'.function = "updateDocumentBody" =>
          \A d \in DocIds, c \in Bodies, sender \in Users :
            (msg' = IsUpdate(d, c, sender)
                /\ (~Exists(d) \/ sender \notin acl[Handle(d)]))
            => /\ result'.status \in {"DocumentNotFound", "Unauthorized"}
               /\ NothingCommitted
       /\ result'.status # "ok" => NothingCommitted]_vars

\* The owner of a document granted the null address and was refused.
C9_Witness ==
    \E d \in DocIds :
        /\ Exists(d)
        /\ msg = IsGrant(d, NullAddress, Owner(d))
        /\ result.status = "InvalidAddress"
        /\ logs = <<>>
        /\ NullAddress \notin collaborators[d]
        /\ NullAddress \notin acl[Handle(d)]

(* C10: grantAccess on an unknown id reverts with DocumentNotFound(id)     *)
(* for every sender and grantee; on a known id with a sender that is not   *)
(* the owner it reverts with NotDocumentOwner(sender), also when grantee   *)
(* is the null address; InvalidAddress is raised only for the owner of an  *)
(* existing document; updateDocumentBody on an unknown id reverts with     *)
(* DocumentNotFound(id).                                                   *)
C10_ErrorPrecedence ==
    /\ \A d \in DocIds, grantee \in Grantees, sender \in Users :
          (msg = IsGrant(d, grantee, sender))
          => /\ ~Exists(d)
                   => result = Failed("DocumentNotFound", d, NullAddress)
             /\ (Exists(d) /\ sender # Owner(d))
                   => result = Failed("NotDocumentOwner", 0, sender)
             /\ result.status = "InvalidAddress"
                   => (Exists(d) /\ sender = Owner(d)
                          /\ grantee = NullAddress)
    /\ \A d \in DocIds, c \in Bodies, sender \in Users :
          (msg = IsUpdate(d, c, sender) /\ ~Exists(d))
          => result = Failed("DocumentNotFound", d, NullAddress)

\* A non-owner granted the null address on an existing document.
C10_Witness ==
    \E d \in DocIds, sender \in Users :
        /\ Exists(d) /\ sender # Owner(d)
        /\ msg = IsGrant(d, NullAddress, sender)
        /\ result.status = "NotDocumentOwner"

(* C11: createDocument(name) reverts with EmptyName and allocates no id    *)
(* when name is blank, that is empty once its whitespace is trimmed (the   *)
(* empty name and the whitespace-only name); for every other name it       *)
(* returns the new id documentCount + 1 and stores a document of that name *)
(* and owner, also when a document of that name and owner exists already.  *)
C11_BlankNameRejected ==
    [][msg'.function = "createDocument" =>
        \A name \in AllNames, sender \in Users, id \in DocIds :
          (id = documentCount + 1 /\ msg' = IsCreate(name, sender))
          => IF trim(name) = ""
             THEN /\ result'.status = "EmptyName"
                  /\ documentCount' = documentCount
                  /\ NothingCommitted
             ELSE /\ result' = Ok(id)
                  /\ documentCount' = id
                  /\ ~Exists(id)
                  /\ documents'[id].name = name
                  /\ documents'[id].owner = sender]_vars

(* C12: getDocument(d), isAuthorized(d, x) and getCollaborators(d) revert  *)
(* with DocumentNotFound(d) for exactly the ids d outside 1 ..             *)
(* documentCount (0 and the ids above the count) and return for the ids    *)
(* inside; getDocuments returns an array of documentCount elements, empty  *)
(* on an empty ledger, whose index i holds what getDocument(i + 1)         *)
(* returns.                                                                *)
C12_ViewsAndListing ==
    /\ \A d \in DocIds, x \in Identities :
          IF d \in 1 .. documentCount
          THEN /\ getDocument(d) = Ok(documents[d])
               /\ isAuthorized(d, x).status = "ok"
               /\ getCollaborators(d).status = "ok"
          ELSE /\ getDocument(d) = Failed("DocumentNotFound", d, NullAddress)
               /\ isAuthorized(d, x) = Failed("DocumentNotFound", d, NullAddress)
               /\ getCollaborators(d) =
                      Failed("DocumentNotFound", d, NullAddress)
    /\ DOMAIN getDocuments = 0 .. (documentCount - 1)
    /\ documentCount = 0 => DOMAIN getDocuments = {}
    /\ \A i \in DOMAIN getDocuments :
          /\ i + 1 \in 1 .. documentCount
          /\ getDocument(i + 1) = Ok(getDocuments[i])

\* Two documents of different owners are listed in the order of creation,
\* the second with a body, and id 3 is unknown.
C12_Witness ==
    /\ documentCount = 2
    /\ getDocuments[0].owner # getDocuments[1].owner
    /\ getDocuments[1].encryptedBody = "ciphertext"
    /\ getDocuments[1] = documents[2]
    /\ getDocument(3).status = "DocumentNotFound"
    /\ getDocument(0).status = "DocumentNotFound"

\* list is an initial segment of longer.
IsPrefix(list, longer) ==
    /\ Len(list) <= Len(longer)
    /\ SubSeq(longer, 1, Len(list)) = list

(* C19: no step revokes access.  For every existing document d and every   *)
(* identity x, a step keeps isAuthorized(d, x) true when it was true,      *)
(* keeps x allowed by the store on d's handle when it was allowed, keeps   *)
(* d's handle, and leaves getCollaborators(d) an initial segment of what   *)
(* it returns afterwards; so all three hold between any earlier and any    *)
(* later state.                                                            *)
C19_NoRevocation ==
    [][\A d \in DocIds : Exists(d) =>
          /\ Exists(d)'
          /\ Handle(d)' = Handle(d)
          /\ IsPrefix(getCollaborators(d).value, getCollaborators(d)'.value)
          /\ \A x \in Identities :
                /\ isAuthorized(d, x).value => isAuthorized(d, x)'.value
                /\ isSenderAllowed(Handle(d), x)
                      => isSenderAllowed(Handle(d), x)']_vars

\* The collaborator granted first is still authorized, still allowed by the
\* store and still second in the list after a later grant and its own write.
C19_Witness ==
    \E d \in DocIds :
        /\ Exists(d)
        /\ Len(collaboratorList[d]) = 3
        /\ msg = IsUpdate(d, "", collaboratorList[d][2])
        /\ result = Ok(0)
        /\ isAuthorized(d, collaboratorList[d][2]).value
        /\ isSenderAllowed(Handle(d), collaboratorList[d][2])

(* C20: in every reachable state every existing document has an owner      *)
(* other than the null address, isAuthorized(d, owner) is true and the     *)
(* owner is the first element of getCollaborators(d).                      *)
C20_OwnerFirst ==
    \A d \in DocIds : Exists(d) =>
        /\ getDocument(d).value.owner \in Users
        /\ isAuthorized(d, getDocument(d).value.owner) = Ok(TRUE)
        /\ Len(getCollaborators(d).value) >= 1
        /\ Head(getCollaborators(d).value) = getDocument(d).value.owner

\* The owner heads a list of three after granting itself again and after a
\* collaborator wrote the body.
C20_Witness ==
    \E d \in DocIds :
        /\ Exists(d)
        /\ Len(collaboratorList[d]) = 3
        /\ collaboratorList[d][1] = Owner(d)
        /\ Body(d) = "ciphertext"
        /\ msg = IsGrant(d, Owner(d), Owner(d))
        /\ result = Ok(0)

nonceHalf(payload) == SubSeq(payload, 1, indexOfColon(payload) - 1)
dataHalf(payload) == SubSeq(payload, indexOfColon(payload) + 1, Len(payload))

(* C14: decryptBody returns the empty string for the empty payload, with   *)
(* any secret and without decrypting; a non-empty payload fails with       *)
(* MalformedPayload, before any decryption, exactly when it has no colon   *)
(* or its part before the first colon or its part after the first colon   *)
(* is empty.                                                               *)
C14_SplitAtFirstColon ==
    codec.call = "decryptBody" =>
        IF codec.payload = ""
        THEN codec.outcome = Decoded("ok", "", FALSE)
        ELSE /\ (codec.outcome.status = "MalformedPayload")
                   <=> \/ indexOfColon(codec.payload) = 0
                       \/ nonceHalf(codec.payload) = ""
                       \/ dataHalf(codec.payload) = ""
             /\ codec.outcome.status = "MalformedPayload"
                   => ~codec.outcome.decrypted

\* A half that fromHex cannot decode faithfully: odd length, or a character
\* that is no hexadecimal digit.
BadHex(hex) ==
    \/ Len(hex) % 2 # 0
    \/ \E i \in 1 .. Len(hex) : digitValue(charAt(hex, i)) < 0

(* C15: for a payload with one colon and two non-empty halves, decryptBody *)
(* fails with InvalidEncoding, without calling the authenticated           *)
(* decryption and without returning plaintext, whenever a half has odd     *)
(* length or holds a character that is no hexadecimal digit.               *)
C15_BadHexRejected ==
    (/\ codec.call = "decryptBody"
     /\ Len(split(codec.payload)) = 2
     /\ nonceHalf(codec.payload) # "" /\ dataHalf(codec.payload) # ""
     /\ BadHex(nonceHalf(codec.payload)) \/ BadHex(dataHalf(codec.payload)))
    => /\ codec.outcome.status = "InvalidEncoding"
       /\ ~codec.outcome.decrypted

\* The handler h ends in this step through its catch block.
EndsInFailure(h) ==
    /\ tasks[h].pc # "idle"
    /\ tasks'[h].pc = "idle"
    /\ session'.status = catchStatus(h)

\* The failure kind a status of the session tells its reader.
reportedKind(status) ==
    CASE status \in {catchStatus("decryptSecret"), catchStatus("updateBody")}
            -> "Unauthorized"
      [] status = catchStatus("grantAccess") -> "NotDocumentOwner"
      [] status = catchStatus("handleCreateDocument") -> "TransportFailure"
      [] OTHER -> "none"

(* C16: when a handler of the session ends in failure, the status it       *)
(* reports tells the kind of the error that was thrown (the one logged to  *)
(* the console): Unauthorized, NotDocumentOwner, DocumentNotFound, the     *)
(* codec's failures and a transport failure are told apart.                *)
C16_KindPreserved ==
    [][\A h \in Handlers :
          EndsInFailure(h) => reportedKind(session'.status) = console']_vars

\* The busy flag of a handler.
Busy(h) ==
    CASE h = "handleCreateDocument" -> session.isSubmitting
      [] h = "decryptSecret" -> session.isDecrypting
      [] h = "updateBody" -> session.isUpdating
      [] OTHER -> session.isGranting

(* C17: when a handler of the session ends in failure, its busy flag is    *)
(* false and it can be called again, the revealed secret is the one held   *)
(* when it was called (or was cleared by a new selection meanwhile), and   *)
(* the failing step changes neither the decrypted body, the draft, the     *)
(* ledger nor the store.                                                   *)
C17_FailureKeepsState ==
    [][\A h \in Handlers :
          EndsInFailure(h)
          => /\ ~Busy(h)'
             /\ tasks'[h] = IdleTask
             /\ session'.clearSecret \in {tasks[h].clearSecret, ""}
             /\ session'.decryptedBody = session.decryptedBody
             /\ session'.bodyDraft = session.bodyDraft
             /\ UNCHANGED <<ledger, store>>]_vars

\* The steps the code of handler h can take by itself.
OwnStep(h) ==
    \/ h = "decryptSecret" /\ (ContinueDecrypt \/ FinishDecrypt)
    \/ h = "updateBody" /\ ContinueUpdate
    \/ h = "handleCreateDocument" /\ ContinueCreate
    \/ h = "grantAccess" /\ ContinueGrant

(* C18: a handler that waits for the wallet, the relayer or the ledger can *)
(* always go on by itself: when no answer comes it ends on a timeout and   *)
(* clears its busy flag.                                                   *)
C18_BoundedWait ==
    \A h \in Handlers : tasks[h].pc = "waiting" => ENABLED OwnStep(h)

(* C21: updateDocumentBody answers Unauthorized exactly when the store     *)
(* does not allow the sender on the document's handle, whatever the        *)
(* ledger's ACL set says: a sender the store allows without a grant writes *)
(* the body, and after the write (and its FHE.allow) isAuthorized is still *)
(* false for it and getCollaborators does not list it.                     *)
C21_StoreDecidesUpdate ==
    [][msg'.function = "updateDocumentBody" =>
       \A d \in DocIds, x \in Users, c \in Bodies :
          msg' = IsUpdate(d, c, x) /\ Exists(d)
          => /\ result'.status = "Unauthorized"
                    <=> ~isSenderAllowed(Handle(d), x)
             /\ isSenderAllowed(Handle(d), x) /\ x \notin collaborators[d]
                => /\ result'.status = "ok"
                   /\ documents'[d].encryptedBody = c
                   /\ isSenderAllowed(Handle(d), x)'
                   /\ isAuthorized(d, x)' = Ok(FALSE)
                   /\ x \notin Range(getCollaborators(d)'.value)]_vars

C21_Witness ==
    /\ msg.function = "updateDocumentBody"
    /\ result.status = "ok"
    /\ msg.sender \notin collaborators[msg.documentId]
    /\ documents[msg.documentId].encryptedBody = msg.text
    /\ msg.text # ""

\* The step is a transaction that succeeds in creating or writing document d.
Mutates(d) ==
    /\ now' = now
    /\ result'.status = "ok"
    /\ \/ msg'.function = "createDocument" /\ result'.value = d
       \/ msg'.function = "updateDocumentBody" /\ msg'.documentId = d

(* C22: a successful updateDocumentBody(d, c) sets d's encryptedBody to c  *)
(* as it is and d's updatedAt to the block's time and changes nothing      *)
(* else; a successful grantAccess on d changes only d's ACL set, d's       *)
(* collaborator list and the store's authorization on d's handle; neither  *)
(* changes a name, an owner, a handle or documentCount; and updatedAt      *)
(* changes only when d is created or written, to the time of that block.   *)
C22_FrameOfUpdateAndGrant ==
    [][/\ now' = now /\ result'.status = "ok"
          => \A d \in DocIds :
               /\ msg'.function = "updateDocumentBody" /\ msg'.documentId = d
                  => /\ documents' =
                         [documents EXCEPT
                             ![d] = [@ EXCEPT !.encryptedBody = msg'.text,
                                              !.updatedAt = now']]
                     /\ UNCHANGED <<documentCount, collaborators,
                                    collaboratorList, store>>
               /\ msg'.function = "grantAccess" /\ msg'.documentId = d
                  => /\ UNCHANGED <<documentCount, documents,
                                    plaintext, minted>>
                     /\ \A e \in DocIds \ {d} :
                           /\ collaborators'[e] = collaborators[e]
                           /\ collaboratorList'[e] = collaboratorList[e]
                     /\ \A h \in Handles \ {Handle(d)} : acl'[h] = acl[h]
       /\ \A d \in DocIds :
             documents'[d].updatedAt =
                 IF Mutates(d) THEN now' ELSE documents[d].updatedAt]_vars

\* d was written in a later block than the first, then access to it was
\* granted: the body and the time of the write are still there.
C22_Witness ==
    \E d \in DocIds :
        /\ msg = Call("grantAccess", Owner(d), d, msg.account, "")
        /\ result.status = "ok"
        /\ Exists(d)
        /\ msg.account \in collaborators[d] \ {Owner(d)}
        /\ Body(d) # ""
        /\ documents[d].updatedAt > 1

\* The step is a transaction that succeeds in creating, sharing or writing d.
Concerns(d) ==
    /\ result'.status = "ok"
    /\ \/ msg'.function = "createDocument" /\ result'.value = d
       \/ msg'.function \in {"grantAccess", "updateDocumentBody"}
              /\ msg'.documentId = d

\* The accounts that pass the authorization check of updateDocumentBody on e.
Writers(e) == {x \in Users : updateDocumentBodyError(documents[e], x) = "ok"}

secretOf(d) == decimal(plaintext[Handle(d)])

(* C24: a revealed secret the session holds is the secret of the document  *)
(* selected now, also when the selection changed while decryptSecret was   *)
(* waiting for the relayer; so a ciphertext updateBody submits for         *)
(* document d decrypts under d's own secret, and a body decryptSecret      *)
(* shows was decrypted for the document selected when it is shown.         *)
C24_SecretOfSelection ==
    [][/\ session'.clearSecret # ""
          => /\ session'.selectedId \in 1 .. documentCount'
             /\ \A d \in DocIds :
                   d = session'.selectedId
                   => session'.clearSecret = secretOf(d)'
       /\ tasks'["updateBody"].pc = "waiting"
          => \A d \in DocIds :
                d = tasks'["updateBody"].selectedId
                => decryptBody(secretOf(d)', tasks'["updateBody"].input).status
                       = "ok"
       /\ /\ tasks["decryptSecret"].pc = "codec"
          /\ session'.decryptedBody # session.decryptedBody
          => tasks["decryptSecret"].selectedId = session'.selectedId]_vars

====
